---- MODULE Spec2Model ----
(***************************************************************************)
(* Amplifier.js: the audio graph, its effect nodes, the POWER/SOUND        *)
(* switches, the microphone input, the knobs and the configuration loader. *)
(*                                                                         *)
(* Numbers.  JavaScript numbers are modelled in fixed point:               *)
(*   - control values (knob values, node values, gains) in thousandths,    *)
(*     so 1.0 is 1000, 0.985 is 985 and 0.1 is 100;                        *)
(*   - squares of control values, and the frequencies and Q factors that   *)
(*     are computed from them, in millionths, so 650 Hz is 650000000.      *)
(* Mouse positions are whole pixels.                                       *)
(***************************************************************************)
EXTENDS Integers, Sequences, FiniteSets, TLC

VARIABLES
    pc,            \* position inside amplifier.core.init, then "run"
    volume,        \* amplifier.audio.volume     [value, on, gain]
    distortion,    \* amplifier.audio.distortion [value, distortion, curve]
    bass,          \* amplifier.audio.bass       [value, frequency, Q]
    middle,        \* amplifier.audio.middle     [value, frequency, Q]
    treble,        \* amplifier.audio.treble     [value, frequency, Q]
    reverb,        \* amplifier.audio.reverb     [value, delays, allPasses]
    streamSource,  \* amplifier.audio.input.streamSource: <<>> is null, <<h>> a source
    created,       \* media stream sources created so far (they are numbered 1, 2, ...)
    pending,       \* webkitGetUserMedia requests not answered yet
    connections,   \* edges <<h, node>> from a media stream source into the graph
    edges,         \* edges <<from, to>> between the audio nodes of the graph
    switches,      \* amplifier.ui.switches_: id -> state_
    knobs,         \* amplifier.ui.knobs_: name -> the Knob's fields
    sent,          \* the lib.msg.send calls of the handler that ran last, in order
    escaped,       \* the exception that handler let escape to the event loop, or "none"
    uiEvents,      \* knob and configuration events handled so far
    mouse,         \* the pointer: "up", "down", or, between a mouseup and the click
                   \* event the browser dispatches after it, the place of the release
    call,          \* harness of the pure functions: the arguments
    ret            \* harness of the pure functions: the results

progVars == <<pc, volume, distortion, bass, middle, treble, reverb, streamSource,
              created, pending, connections, edges, switches, knobs, sent, escaped,
              uiEvents, mouse>>
fnVars == <<call, ret>>
vars == <<pc, volume, distortion, bass, middle, treble, reverb, streamSource,
          created, pending, connections, edges, switches, knobs, sent, escaped,
          uiEvents, mouse, call, ret>>

(***************************************************************************)
(* Bounds of the model.                                                    *)
(***************************************************************************)
\* microphone requests that may be unanswered at the same time
MaxPending == 2
\* knob clicks, knob mousedowns and configuration loads in one behaviour
MaxUiEvents == 2

(***************************************************************************)
(* lib.math                                                                *)
(***************************************************************************)
Min2(a, b) == IF a < b THEN a ELSE b
Max2(a, b) == IF a > b THEN a ELSE b

clamp(value, min, max) == Max2(Min2(value, max), min)

\* The output interval's minimum is never added, the input interval's minimum is
\* never subtracted.
map(value, initialInterval, finalInterval) ==
    ((finalInterval[2] - finalInterval[1]) * value)
        \div (initialInterval[2] - initialInterval[1])

\* Math.pow(x, 2) of a value in thousandths, in millionths
pow2(x) == x * x

(***************************************************************************)
(* amplifier.audio.Node and the effect nodes, as values.                   *)
(***************************************************************************)
Node_setValue(node, newValue) == [node EXCEPT !.value = newValue]

AMPLIFICATION == 10

Volume_setValue(node, newValue) ==
    Node_setValue(
        [node EXCEPT !.gain = IF node.on THEN newValue * AMPLIFICATION ELSE 0],
        newValue)

\* Volume_turnOn with a fault: the gain is not recomputed
Volume_turnOn_keepsGain(node) == [node EXCEPT !.on = TRUE]

Volume_turnOn(node) ==
    LET n == [node EXCEPT !.on = TRUE] IN Volume_setValue(n, n.value)

\* Volume_turnOff with a fault: the gain is not recomputed
Volume_turnOff_keepsGain(node) == [node EXCEPT !.on = FALSE]

Volume_turnOff(node) ==
    LET n == [node EXCEPT !.on = FALSE] IN Volume_setValue(n, n.value)

\* new amplifier.audio.Volume(): a gain node, value 0.0, on false, then turnOff()
Volume_new == Volume_turnOff([value |-> 0, on |-> FALSE, gain |-> 1000])

\* new amplifier.audio.Biquad(type): a biquad filter with the Web Audio defaults
\* (frequency 350 Hz, Q 1), value 0.0
Biquad_new == [value |-> 0, frequency |-> 350 * 1000000, Q |-> 1000000]

Biquad_setValue(node, newValue, computedValue) ==
    [Node_setValue(node, newValue) EXCEPT !.frequency = computedValue]

LowPass_setValue(node, newValue) ==
    Biquad_setValue(node, newValue, map(pow2(newValue), <<0, 1>>, <<650, 1319>>))

\* HighPass_setValue with a fault: the control value is not inverted
HighPass_setValue_notInverted(node, newValue) ==
    Biquad_setValue(node, newValue, map(pow2(newValue), <<0, 1>>, <<31, 650>>))

HighPass_setValue(node, newValue) ==
    Biquad_setValue(node, newValue, map(pow2(1000 - newValue), <<0, 1>>, <<31, 650>>))

\* new amplifier.audio.BandStop(): the centre frequency is map(0.5, [0,1], [31,1319])
BandStop_new == [Biquad_new EXCEPT !.frequency = map(500000, <<0, 1>>, <<31, 1319>>)]

\* BandStop_setValue with a fault: the control value is not capped at 0.9
BandStop_setValue_noCap(node, newValue) ==
    [node EXCEPT !.value = newValue, !.Q = 10 * pow2(100 + newValue)]

\* BandStop_setValue with a fault: Biquad.prototype.setValue is used, which writes
\* the frequency as well
BandStop_setValue_setsFrequency(node, newValue) ==
    [Biquad_setValue(node, newValue, 10 * pow2(100 + Min2(900, newValue)))
        EXCEPT !.Q = 10 * pow2(100 + Min2(900, newValue))]

BandStop_setValue(node, newValue) ==
    [node EXCEPT !.value = newValue,
                 !.Q = 10 * pow2(100 + Min2(900, newValue))]

\* amplifier.audio.Distortion.SAMPLES
SAMPLES == 2048

\* Math.sin(x * Math.PI * 0.5) of x in thousandths, in thousandths, by Bhaskara's
\* rational approximation 4u / (5 - u) with u = x(2 - x); it is exact at 0 and at
\* 1 and increases in between
sinHalfPi(x) ==
    LET u == (x * (2000 - x)) \div 1000 IN (4000 * u) \div (5000 - u)

\* curveSample with a fault: the abscissa runs over [0, 2] instead of [-1, 1]
curveSample_noOffset(a, i) ==
    LET half == SAMPLES \div 2
    IN  ((1000 + a) * i * 1000) \div ((1000 - a) * half + 2 * a * i)

\* the sample computeCurve_ writes at index i, in thousandths.  With
\* x = (i - 0) * (1 - (-1)) / (SAMPLES - 0) + (-1) = (i - SAMPLES/2) / (SAMPLES/2)
\* and k = 2a / (1 - a), the quotient (1 + k) x / (1 + k |x|) is
\* (1 + a)(i - SAMPLES/2) / ((1 - a) SAMPLES/2 + 2a |i - SAMPLES/2|).
curveSample(a, i) ==
    LET half == SAMPLES \div 2
        j == i - half
        abs == IF j < 0 THEN -j ELSE j
    IN  ((1000 + a) * j * 1000) \div ((1000 - a) * half + 2 * a * abs)

\* The Float32Array this.curve.  computeCurve_ writes every one of its indices
\* from the same a, so the array is kept as its length, whether it was written,
\* and the a it was last written from; curveAt is the sample at index i.
curveAt(curve, i) == IF curve.written THEN curveSample(curve.a, i) ELSE 0

\* Distortion.prototype.computeCurve_(): the loop over every index of the curve
computeCurve_(node) ==
    [node EXCEPT !.curve = [length |-> node.curve.length, written |-> TRUE,
                            a |-> sinHalfPi(node.distortion)]]

\* new amplifier.audio.Distortion(): the curve is a Float32Array of SAMPLES zeros
Distortion_new ==
    [value |-> 0, distortion |-> 0,
     curve |-> [length |-> SAMPLES, written |-> FALSE, a |-> 0]]

\* Distortion_setValue with a fault: the value is clamped from above only
Distortion_setValue_noLowerClamp(node, newValue) ==
    Node_setValue(
        computeCurve_([node EXCEPT !.distortion = Min2(newValue, 985)]),
        newValue)

Distortion_setValue(node, newValue) ==
    Node_setValue(
        computeCurve_([node EXCEPT !.distortion = clamp(newValue, 0, 985)]),
        newValue)

(***************************************************************************)
(* amplifier.audio.Reverb.  A stage is the pair {input, output} that       *)
(* createDelay and createAllPass return, with the parameters of its two    *)
(* nodes; input and output are the names of the two audio nodes.  Delay    *)
(* times and gains are in thousandths; an all-pass filter's frequency and  *)
(* Q are whole numbers.                                                    *)
(***************************************************************************)
\* Reverb.createDelay(time): a delay node and a gain node of level 1.2 - time
createDelay(input, output, time) ==
    [input |-> input, output |-> output, delayTime |-> time, gain |-> 1200 - time]

\* Reverb.createAllPass(frequency): an all-pass filter and a gain node of level 1.0
createAllPass(input, output, frequency) ==
    [input |-> input, output |-> output, frequency |-> frequency * 5, Q |-> 1000,
     gain |-> 1000]

createDelayLine ==
    << createDelay("delay1", "delay1.gain", 0),
       createDelay("delay2", "delay2.gain", 116),
       createDelay("delay3", "delay3.gain", 188),
       createDelay("delay4", "delay4.gain", 277),
       createDelay("delay5", "delay5.gain", 356),
       createDelay("delay6", "delay6.gain", 422),
       createDelay("delay7", "delay7.gain", 491),
       createDelay("delay8", "delay8.gain", 557),
       createDelay("delay9", "delay9.gain", 617),
       createDelay("delay10", "delay10.gain", 800),
       createDelay("delay11", "delay11.gain", 1100) >>

createAllPassLine ==
    << createAllPass("allPass1", "allPass1.gain", 225),
       createAllPass("allPass2", "allPass2.gain", 556),
       createAllPass("allPass3", "allPass3.gain", 441),
       createAllPass("allPass4", "allPass4.gain", 341) >>

\* new amplifier.audio.Reverb(): Node.call(this) with no node, value 0.0
Reverb_new == [value |-> 0, delays |-> createDelayLine, allPasses |-> createAllPassLine]

\* Reverb_setValue with a fault: the gain is scaled by the new value
Reverb_setValue_scales(node, newValue) ==
    [node EXCEPT !.allPasses[Len(node.allPasses)].gain = (@ * newValue) \div 1000]

\* Reverb_setValue with a fault: the gain of every all-pass stage is written
Reverb_setValue_allGains(node, newValue) ==
    [node EXCEPT !.allPasses =
        [i \in 1..Len(node.allPasses) |-> [node.allPasses[i] EXCEPT !.gain = newValue]]]

\* Node.prototype.setValue is not called: value keeps its constructor value.
Reverb_setValue(node, newValue) ==
    [node EXCEPT !.allPasses[Len(node.allPasses)].gain = newValue]

\* Node.prototype.getValue(), which no node overrides
Node_getValue(node) == node.value

(***************************************************************************)
(* The audio graph: amplifier.audio.initNodes                              *)
(***************************************************************************)
\* the objects amplifier.audio.initNodes constructs, by the name of the global
\* that holds them
NodeNames ==
    {"compressor1", "compressor2", "distortion", "volume", "bass", "middle", "treble",
     "reverb"}

\* this.node_ of the object called name: the audio node the constructor passes to
\* amplifier.audio.Node, named after the object; Reverb passes none
node_(name) == IF name = "reverb" THEN "undefined" ELSE name

\* Node.prototype.getInput() and getOutput(), which no node overrides
Node_getInput(name) == node_(name)
Node_getOutput(name) == node_(name)

\* from.connect(to)
connect(e, from, to) == e \cup {<<from, to>>}

\* the node.connect(gain) of createDelay and createAllPass, for every stage
stageEdges(stages) == {<<stages[i].input, stages[i].output>> : i \in 1..Len(stages)}

\* chainNodes with a fault: the loop stops one pair early
chainNodes_stopsEarly(e, nodes) ==
    e \cup {<<Node_getOutput(nodes[i]), Node_getInput(nodes[i + 1])>> :
                i \in 1..(Len(nodes) - 2)}

\* amplifier.audio.chainNodes(nodes...)
chainNodes(e, nodes) ==
    e \cup {<<Node_getOutput(nodes[i]), Node_getInput(nodes[i + 1])>> :
                i \in 1..(Len(nodes) - 1)}

\* Reverb.serial(nodes, output)
Reverb_serial(e, nodes, output) ==
    connect(e \cup {<<nodes[i].output, nodes[i + 1].input>> : i \in 1..(Len(nodes) - 1)},
            nodes[Len(nodes)].output, output)

\* Reverb.parallel(nodes, input, output)
Reverb_parallel(e, nodes, input, output) ==
    e \cup {<<input, nodes[i].input>> : i \in 1..Len(nodes)}
      \cup {<<nodes[i].output, output>> : i \in 1..Len(nodes)}

\* Reverb.prototype.connect(input, output)
Reverb_connect(e, node, input, output) ==
    Reverb_serial(
        Reverb_parallel(e, node.delays, input, node.allPasses[1].input),
        node.allPasses, output)

\* initNodes with a fault: the reverb is fed from the first compressor
initNodes_reverbFromInput ==
    LET built == stageEdges(Reverb_new.delays) \cup stageEdges(Reverb_new.allPasses)
        chained == chainNodes(built, <<"compressor1", "distortion", "volume", "bass",
                                       "middle", "treble", "compressor2">>)
        out == connect(chained, Node_getOutput("compressor2"), "destination")
    IN  Reverb_connect(out, Reverb_new, Node_getOutput("compressor1"), "destination")

\* the edges once amplifier.audio.initNodes() has returned
initNodes ==
    LET built == stageEdges(Reverb_new.delays) \cup stageEdges(Reverb_new.allPasses)
        chained == chainNodes(built, <<"compressor1", "distortion", "volume", "bass",
                                       "middle", "treble", "compressor2">>)
        out == connect(chained, Node_getOutput("compressor2"), "destination")
    IN  Reverb_connect(out, Reverb_new, Node_getOutput("compressor2"), "destination")

\* getFirstNode with a fault: the node after the first compressor
getFirstNode_distortion == "distortion"

\* amplifier.audio.getFirstNode(): compressor1's input, which is its node
getFirstNode == "compressor1"

(***************************************************************************)
(* amplifier.audio.input                                                   *)
(***************************************************************************)
NoException == "none"

\* amplifier.core.error(message): throw Error(message)
core_error(message) == message

\* streamSource.connect(destination), for a non-null streamSource
StreamConnect(conns, source, destination) == conns \cup {<<source[1], destination>>}

\* streamSource.disconnect(): every outgoing connection of the source goes
StreamDisconnect(conns, source) == {c \in conns : c[1] # source[1]}

\* amplifier.audio.input.connect(); a request is issued whenever streamSource is
\* still null, whether or not an earlier request is pending
input_connect ==
    IF streamSource = <<>>
    THEN /\ pending < MaxPending
         /\ pending' = pending + 1
         /\ connections' = connections
         /\ escaped' = NoException
    ELSE /\ pending' = pending
         /\ connections' = StreamConnect(connections, streamSource, getFirstNode)
         /\ escaped' = NoException

\* amplifier.audio.input.disconnect(); null.disconnect() is a TypeError
input_disconnect ==
    IF streamSource = <<>>
    THEN /\ connections' = connections
         /\ pending' = pending
         /\ escaped' = "TypeError"
    ELSE /\ connections' = StreamDisconnect(connections, streamSource)
         /\ pending' = pending
         /\ escaped' = NoException

\* amplifier.audio.power(state)
audio_power(state) == IF state THEN input_connect ELSE input_disconnect

\* amplifier.audio.sound(state)
audio_sound(state) ==
    volume' = IF state THEN Volume_turnOn(volume) ELSE Volume_turnOff(volume)

\* successCallback with a fault: the new source is not connected
successCallback_noConnect ==
    /\ pc = "run"
    /\ pending > 0
    /\ pending' = pending - 1
    /\ created' = created + 1
    /\ streamSource' = <<created + 1>>
    /\ sent' = <<>>
    /\ escaped' = NoException
    /\ UNCHANGED <<edges, mouse, pc, volume, distortion, bass, middle, treble, reverb,
                   connections, switches, knobs, uiEvents, call, ret>>

\* amplifier.audio.input.successCallback(stream)
successCallback ==
    /\ pc = "run"
    /\ pending > 0
    /\ pending' = pending - 1
    /\ created' = created + 1
    /\ streamSource' = <<created + 1>>
    /\ connections' = StreamConnect(connections, <<created + 1>>, getFirstNode)
    /\ sent' = <<>>
    /\ escaped' = NoException
    /\ UNCHANGED <<edges, mouse, pc, volume, distortion, bass, middle, treble, reverb, switches,
                   knobs, uiEvents, call, ret>>

SwitchFailure(id) == [name |-> "SWITCH_FAILURE", id |-> id]

\* handleFailure with a fault: the id is not compared, every switch goes off
handleFailure_anyId(sw, id) == [s \in DOMAIN sw |-> FALSE]

\* amplifier.ui.Switch.prototype.handleFailure, run by every switch
handleFailure(sw, id) == [s \in DOMAIN sw |-> IF id = s THEN FALSE ELSE sw[s]]

\* errorCallback with a fault: the failure is thrown but never signalled
errorCallback_silent ==
    /\ pc = "run"
    /\ pending > 0
    /\ pending' = pending - 1
    /\ sent' = <<>>
    /\ escaped' = core_error("Unauthorized access to microphone")
    /\ UNCHANGED <<edges, mouse, pc, volume, distortion, bass, middle, treble, reverb, streamSource,
                   created, connections, switches, knobs, uiEvents, call, ret>>

\* amplifier.audio.input.errorCallback()
errorCallback ==
    /\ pc = "run"
    /\ pending > 0
    /\ pending' = pending - 1
    /\ sent' = <<SwitchFailure("POWER")>>
    /\ switches' = handleFailure(switches, "POWER")
    /\ escaped' = core_error("Unauthorized access to microphone")
    /\ UNCHANGED <<edges, mouse, pc, volume, distortion, bass, middle, treble, reverb, streamSource,
                   created, connections, knobs, uiEvents, call, ret>>

(***************************************************************************)
(* amplifier.ui.Switch                                                     *)
(***************************************************************************)
SwitchIds == {"POWER", "SOUND"}

SwitchState(id, state) == [name |-> "SWITCH_STATE", id |-> id, state |-> state]

\* Switch.prototype.setState(newState) with the SWITCH_STATE listener of
\* amplifier.audio.bindListeners
setState(id, newState) ==
    /\ switches' = [switches EXCEPT ![id] = newState]
    /\ sent' = <<SwitchState(id, newState)>>
    /\ IF id = "POWER"
       THEN audio_power(newState) /\ UNCHANGED volume
       ELSE audio_sound(newState)
            /\ escaped' = NoException
            /\ UNCHANGED <<pending, connections>>

\* a click inside the switch: Switch.prototype.handleClick
SwitchClick(id) ==
    /\ pc = "run"
    /\ setState(id, ~switches[id])
    /\ UNCHANGED <<edges, mouse, pc, distortion, bass, middle, treble, reverb, streamSource, created,
                   knobs, uiEvents, call, ret>>

(***************************************************************************)
(* amplifier.ui.Knob and the KNOB_VALUE listener                           *)
(***************************************************************************)
\* the keys of amplifier.ui.knobs_, in creation order
KnobNames == <<"volume", "distortion", "bass", "middle", "treble", "reverb">>
KnobSet == {KnobNames[i] : i \in 1..Len(KnobNames)}

\* the id each Knob is constructed with
KnobId(k) ==
    CASE k = "volume" -> "VOLUME"
      [] k = "distortion" -> "DISTORTION"
      [] k = "bass" -> "BASS"
      [] k = "middle" -> "MIDDLE"
      [] k = "treble" -> "TREBLE"
      [] k = "reverb" -> "REVERB"

KnobValue(id, value) == [name |-> "KNOB_VALUE", id |-> id, value |-> value]

\* Knob.prototype.setValue with a fault: the new value is stored as given
Knob_setValue_noClamp(knob, newValue) == [knob EXCEPT !.value = newValue]

\* Knob.prototype.setValue(newValue): the stored value, which is also the one sent
Knob_setValue(knob, newValue) == [knob EXCEPT !.value = clamp(newValue, 0, 1000)]

\* Knob.prototype.setValue called once per entry <<name, newValue>> of sets, in order:
\* the knobs afterwards, and the KNOB_VALUE messages sent
KnobsAfter(kn, sets) ==
    LET f[i \in 0..Len(sets)] ==
            IF i = 0 THEN kn
            ELSE [f[i - 1] EXCEPT ![sets[i][1]] = Knob_setValue(@, sets[i][2])]
    IN  f[Len(sets)]

KnobMessages(sets) ==
    [i \in 1..Len(sets) |-> KnobValue(KnobId(sets[i][1]), clamp(sets[i][2], 0, 1000))]

\* knobListeners[id](value) of amplifier.audio.bindListeners: the setValue bound
\* to the node of id
knobListeners(id, node, value) ==
    CASE id = "VOLUME" -> Volume_setValue(node, value)
      [] id = "DISTORTION" -> Distortion_setValue(node, value)
      [] id = "BASS" -> HighPass_setValue(node, value)
      [] id = "MIDDLE" -> BandStop_setValue(node, value)
      [] id = "TREBLE" -> LowPass_setValue(node, value)
      [] id = "REVERB" -> Reverb_setValue(node, value)

\* the KNOB_VALUE listener of amplifier.audio.bindListeners, for the node bound to
\* id: the node after msgs were delivered in order
knobListener(msgs, id, node) ==
    LET f[i \in 0..Len(msgs)] ==
            IF i = 0 THEN node
            ELSE IF msgs[i].id = id THEN knobListeners(id, f[i - 1], msgs[i].value)
            ELSE f[i - 1]
    IN  f[Len(msgs)]

\* SendKnobValues with a fault: the treble node is bound to MIDDLE as well
SendKnobValues_crossed(msgs) ==
    /\ volume' = knobListener(msgs, "VOLUME", volume)
    /\ distortion' = knobListener(msgs, "DISTORTION", distortion)
    /\ bass' = knobListener(msgs, "BASS", bass)
    /\ middle' = knobListener(msgs, "MIDDLE", middle)
    /\ treble' = knobListener(msgs, "MIDDLE", knobListener(msgs, "TREBLE", treble))
    /\ reverb' = knobListener(msgs, "REVERB", reverb)
    /\ sent' = msgs

\* lib.msg.send('KNOB_VALUE', ...) for every message of msgs
SendKnobValues(msgs) ==
    /\ volume' = knobListener(msgs, "VOLUME", volume)
    /\ distortion' = knobListener(msgs, "DISTORTION", distortion)
    /\ bass' = knobListener(msgs, "BASS", bass)
    /\ middle' = knobListener(msgs, "MIDDLE", middle)
    /\ treble' = knobListener(msgs, "TREBLE", treble)
    /\ reverb' = knobListener(msgs, "REVERB", reverb)
    /\ sent' = msgs

\* Knob.prototype.setValue for every entry of sets, with what its message causes
SetKnobs(sets) ==
    /\ knobs' = KnobsAfter(knobs, sets)
    /\ SendKnobValues(KnobMessages(sets))

\* new amplifier.ui.Knob(x, value, id, label) before its setValue call; mouseDownY_
\* and mouseDownValue_ are not assigned yet (0 stands for undefined)
Knob_new(value) ==
    [value |-> value, isMouseMoveTarget |-> FALSE, mouseDownY |-> 0,
     mouseDownValue |-> 0, skipClick |-> FALSE]

\* the value after a click: Math.floor((value_ * 10 + 1) % 11) / 10
nextValue(value) == (((value * 10 + 1000) % 11000) \div 1000) * 100

\* Knob.prototype.handleClick of knob k
handleClick(k) ==
    IF knobs[k].skipClick
    THEN /\ knobs' = [knobs EXCEPT ![k].skipClick = FALSE]
         /\ sent' = <<>>
         /\ UNCHANGED <<volume, distortion, bass, middle, treble, reverb>>
    ELSE SetKnobs(<< <<k, nextValue(knobs[k].value)>> >>)

\* a click inside knob k, the pointer pressed and released there without moving:
\* the click event alone changes state
KnobClick(k) ==
    /\ pc = "run"
    /\ mouse = "up"
    /\ uiEvents < MaxUiEvents
    /\ uiEvents' = uiEvents + 1
    /\ handleClick(k)
    /\ escaped' = NoException
    /\ UNCHANGED <<edges, mouse, pc, streamSource, created, pending, connections, switches, call, ret>>

\* the clientY of the mouse events
MouseYs == {100, 200}

\* a mousedown inside knob k: Knob.prototype.handleMouseDown
KnobMouseDown(k, clientY) ==
    /\ pc = "run"
    /\ mouse = "up"
    /\ mouse' = "down"
    /\ uiEvents < MaxUiEvents
    /\ uiEvents' = uiEvents + 1
    /\ knobs' = [knobs EXCEPT ![k].isMouseMoveTarget = TRUE,
                              ![k].mouseDownY = clientY,
                              ![k].mouseDownValue = knobs[k].value]
    /\ sent' = <<>>
    /\ escaped' = NoException
    /\ UNCHANGED <<edges, pc, volume, distortion, bass, middle, treble, reverb, streamSource,
                   created, pending, connections, switches, call, ret>>

\* where the pointer may be released: inside a knob or outside all of them
ReleasePlaces == KnobSet \cup {"outside"}

\* a mouseup at where: Knob.prototype.handleMouseUp of every knob, whose handler
\* is bound with lib.functions.TRUE; the browser dispatches a click there next
MouseUp(where) ==
    /\ pc = "run"
    /\ mouse = "down"
    /\ mouse' = where
    /\ knobs' = [k \in DOMAIN knobs |-> [knobs[k] EXCEPT !.isMouseMoveTarget = FALSE]]
    /\ sent' = <<>>
    /\ escaped' = NoException
    /\ UNCHANGED <<edges, pc, volume, distortion, bass, middle, treble, reverb, streamSource,
                   created, pending, connections, switches, uiEvents, call, ret>>

\* the click event that follows a mouseup, at the place of the release:
\* amplifier.ui.events.globalHandler runs handleClick of the knob it is within
ReleaseClick ==
    /\ pc = "run"
    /\ mouse \in ReleasePlaces
    /\ mouse' = "up"
    /\ IF mouse \in KnobSet
       THEN handleClick(mouse)
       ELSE /\ sent' = <<>>
            /\ UNCHANGED <<knobs, volume, distortion, bass, middle, treble, reverb>>
    /\ escaped' = NoException
    /\ UNCHANGED <<edges, pc, streamSource, created, pending, connections, switches,
                   uiEvents, call, ret>>

\* the knobs that are mouse-move targets, in handler order
MoveTargets == SelectSeq(KnobNames, LAMBDA k : knobs[k].isMouseMoveTarget)

\* a mousemove anywhere: Knob.prototype.handleMouseMove of every knob; 1/200 per pixel
MouseMove(clientY) ==
    /\ pc = "run"
    /\ MoveTargets # <<>>
    /\ LET marked == [k \in DOMAIN knobs |->
                        IF knobs[k].isMouseMoveTarget
                        THEN [knobs[k] EXCEPT !.skipClick = TRUE] ELSE knobs[k]]
           sets == [i \in 1..Len(MoveTargets) |->
                        <<MoveTargets[i],
                          knobs[MoveTargets[i]].mouseDownValue
                              + ((knobs[MoveTargets[i]].mouseDownY - clientY) * 1000) \div 200>>]
       IN  /\ knobs' = KnobsAfter(marked, sets)
           /\ SendKnobValues(KnobMessages(sets))
    /\ escaped' = NoException
    /\ UNCHANGED <<edges, mouse, pc, streamSource, created, pending, connections, switches, uiEvents,
                   call, ret>>

(***************************************************************************)
(* amplifier.config                                                        *)
(***************************************************************************)
Fields == KnobSet

Number(n) == [type |-> "number", num |-> n]
String == [type |-> "string"]
Undefined == [type |-> "undefined"]

DEFAULT ==
    [volume |-> Number(400), distortion |-> Number(400), bass |-> Number(400),
     middle |-> Number(700), treble |-> Number(900), reverb |-> Number(200)]

\* a record of numbers, two of them outside [0, 1]
OtherConfig ==
    [volume |-> Number(0), distortion |-> Number(1000), bass |-> Number(1500),
     middle |-> Number(-200), treble |-> Number(100), reverb |-> Number(1000)]

\* the file contents dropped on the canvas: what JSON.parse makes of them
ValidFiles == {[parse |-> "ok", config |-> c] : c \in {DEFAULT, OtherConfig}}
InvalidFiles ==
    {[parse |-> "ok", config |-> [OtherConfig EXCEPT ![f] = v]] :
        f \in Fields, v \in {String, Undefined}}
    \cup {[parse |-> "SyntaxError", config |-> OtherConfig]}
ConfigFiles == ValidFiles \cup InvalidFiles

\* amplifier.config.validateField_(configField): TRUE when it returns, FALSE when it throws
validateField_(configField) == configField.type = "number"

\* amplifier.config.validate(fileContent): TRUE when it returns the configuration,
\* FALSE when JSON.parse or a field's validation throws
validate(fileContent) ==
    /\ fileContent.parse = "ok"
    /\ validateField_(fileContent.config.volume)
    /\ validateField_(fileContent.config.distortion)
    /\ validateField_(fileContent.config.bass)
    /\ validateField_(fileContent.config.middle)
    /\ validateField_(fileContent.config.treble)
    /\ validateField_(fileContent.config.reverb)

\* amplifier.config.load(config): the six Knob.setValue calls, in order
load(config) ==
    SetKnobs([i \in 1..Len(KnobNames) |-> <<KnobNames[i], config[KnobNames[i]].num>>])

\* readFile with a fault: each field is applied as soon as it has been validated
readFile_partial(fileContent) ==
    /\ pc = "run"
    /\ uiEvents < MaxUiEvents
    /\ uiEvents' = uiEvents + 1
    /\ LET ok(i) == /\ fileContent.parse = "ok"
                    /\ \A j \in 1..i : validateField_(fileContent.config[KnobNames[j]])
           n == Cardinality({i \in 1..Len(KnobNames) : ok(i)})
       IN  /\ SetKnobs([i \in 1..n |->
                           <<KnobNames[i], fileContent.config[KnobNames[i]].num>>])
           /\ escaped' = IF n = Len(KnobNames) THEN NoException
                         ELSE core_error("Invalid configuration")
    /\ UNCHANGED <<edges, mouse, pc, streamSource, created, pending, connections, switches, call, ret>>

\* amplifier.config.readFile(event), the FileReader's onload handler
readFile(fileContent) ==
    /\ pc = "run"
    /\ uiEvents < MaxUiEvents
    /\ uiEvents' = uiEvents + 1
    /\ IF validate(fileContent)
       THEN /\ load(fileContent.config)
            /\ escaped' = NoException
       ELSE /\ escaped' = core_error("Invalid configuration")
            /\ sent' = <<>>
            /\ UNCHANGED <<knobs, volume, distortion, bass, middle, treble, reverb>>
    /\ UNCHANGED <<edges, mouse, pc, streamSource, created, pending, connections, switches, call, ret>>

(***************************************************************************)
(* amplifier.core.init, after amplifier.audio.init() has returned          *)
(***************************************************************************)
\* the value each Knob is constructed with in amplifier.ui.init
InitialKnobValue ==
    [volume |-> 0, distortion |-> 1000, bass |-> 1000, middle |-> 1000,
     treble |-> 1000, reverb |-> 400]

\* amplifier.ui.init(): the two switches, then the six knobs, each constructor
\* ending in this.setValue(this.value_)
ui_init ==
    /\ pc = "ui.init"
    /\ pc' = "config.init"
    /\ switches' = [id \in SwitchIds |-> FALSE]
    /\ LET sets == [i \in 1..Len(KnobNames) |->
                        <<KnobNames[i], InitialKnobValue[KnobNames[i]]>>]
       IN  /\ knobs' = KnobsAfter([k \in KnobSet |-> Knob_new(InitialKnobValue[k])], sets)
           /\ SendKnobValues(KnobMessages(sets))
    /\ escaped' = NoException
    /\ UNCHANGED <<edges, mouse, streamSource, created, pending, connections, uiEvents, call, ret>>

\* config_init with a fault: the default configuration is not loaded
config_init_noLoad ==
    /\ pc = "config.init"
    /\ pc' = "run"
    /\ sent' = <<>>
    /\ escaped' = NoException
    /\ UNCHANGED <<edges, mouse, knobs, volume, distortion, bass, middle, treble, reverb,
                   streamSource, created, pending, connections, switches, uiEvents,
                   call, ret>>

\* amplifier.config.init(): the default configuration is loaded
config_init ==
    /\ pc = "config.init"
    /\ pc' = "run"
    /\ load(DEFAULT)
    /\ escaped' = NoException
    /\ UNCHANGED <<edges, mouse, streamSource, created, pending, connections, switches, uiEvents,
                   call, ret>>

NoCall == [op |-> "none"]
NoRet == [op |-> "none"]

\* the globals once amplifier.audio.init() has built the nodes and bound the listeners
ProgInit ==
    /\ pc = "ui.init"
    /\ volume = Volume_new
    /\ distortion = Distortion_new
    /\ bass = Biquad_new
    /\ middle = BandStop_new
    /\ treble = Biquad_new
    /\ reverb = Reverb_new
    /\ streamSource = <<>>
    /\ created = 0
    /\ pending = 0
    /\ connections = {}
    /\ edges = initNodes
    /\ switches = <<>>
    /\ knobs = <<>>
    /\ sent = <<>>
    /\ escaped = NoException
    /\ uiEvents = 0
    /\ mouse = "up"

Init == ProgInit /\ call = NoCall /\ ret = NoRet

\* the switches, the microphone, knob clicks and configuration files
Next ==
    \/ ui_init
    \/ config_init
    \/ \E id \in SwitchIds : SwitchClick(id)
    \/ successCallback
    \/ errorCallback
    \/ \E k \in KnobSet : KnobClick(k)
    \/ \E file \in ConfigFiles : readFile(file)

Spec == Init /\ [][Next]_vars

\* the same program when the browser answers every webkitGetUserMedia request: one
\* of the two callbacks passed to it is eventually called
AnsweredSpec == Spec /\ WF_vars(successCallback \/ errorCallback)

\* the knobs alone: clicks, drags and configuration files
UiNext ==
    \/ ui_init
    \/ config_init
    \/ \E k \in KnobSet : KnobClick(k)
    \/ \E k \in KnobSet, y \in MouseYs : KnobMouseDown(k, y)
    \/ \E y \in MouseYs : MouseMove(y)
    \/ \E where \in ReleasePlaces : MouseUp(where)
    \/ ReleaseClick
    \/ \E file \in ConfigFiles : readFile(file)

UiSpec == Init /\ [][UiNext]_vars

(***************************************************************************)
(* The functions on their own: lib.math.map and the nodes' setValue are    *)
(* called with arguments drawn from small sets, on freshly built nodes.    *)
(***************************************************************************)
\* control values in [0, 1]: every tenth, and two values in between
ControlValues == {100 * i : i \in 0..10} \cup {50, 985}

\* arguments of lib.math.map: values in millionths, intervals in whole units; the
\* values are multiples of every interval width, so that the division is exact
MapValues == {0, 500000, 1000000, 1500000}
InitialIntervals == {<<0, 1>>, <<0, 2>>, <<1, 3>>, <<2, 3>>}
FinalIntervals == {<<650, 1319>>, <<31, 650>>, <<0, 10>>}

\* numbers a caller may pass to a node's setValue: control values, and numbers
\* below 0, between 0.9 and 1, and above 1
NodeInputs == ControlValues \cup {-500, 950, 1500}

\* the ids the KNOB_VALUE listener knows
KnobIds == {KnobId(k) : k \in KnobSet}

FnCalls ==
    {[op |-> "map", value |-> v, initialInterval |-> ii, finalInterval |-> fi] :
        v \in MapValues, ii \in InitialIntervals, fi \in FinalIntervals}
    \cup {[op |-> o, v1 |-> a, v2 |-> b] :
        o \in {"HighPass", "LowPass"}, a \in ControlValues, b \in ControlValues}
    \cup {[op |-> "setValue", id |-> id, on |-> on, v1 |-> a, v2 |-> b] :
        id \in KnobIds, on \in {FALSE}, a \in NodeInputs, b \in NodeInputs}
    \cup {[op |-> "setValue", id |-> "VOLUME", on |-> TRUE, v1 |-> a, v2 |-> b] :
        a \in NodeInputs, b \in NodeInputs}
    \cup {[op |-> "ports", node |-> n] : n \in NodeNames}

FnInit == ProgInit /\ call \in FnCalls /\ ret = NoRet

\* lib.math.map(value, initialInterval, finalInterval)
callMap ==
    /\ call.op = "map"
    /\ ret = NoRet
    /\ ret' = [op |-> "map",
               result |-> map(call.value, call.initialInterval, call.finalInterval)]
    /\ UNCHANGED <<edges, mouse, pc, volume, distortion, bass, middle, treble, reverb, streamSource,
                   created, pending, connections, switches, knobs, sent, escaped,
                   uiEvents, call>>

\* amplifier.audio.bass.setValue(v1) and then setValue(v2); f1 and f2 are the
\* frequencies the two calls write
callHighPass ==
    /\ call.op = "HighPass"
    /\ ret = NoRet
    /\ LET first == HighPass_setValue(bass, call.v1)
           second == HighPass_setValue(first, call.v2)
       IN  /\ bass' = second
           /\ ret' = [op |-> "HighPass", f1 |-> first.frequency, f2 |-> second.frequency]
    /\ UNCHANGED <<edges, mouse, pc, volume, distortion, middle, treble, reverb, streamSource,
                   created, pending, connections, switches, knobs, sent, escaped,
                   uiEvents, call>>

\* amplifier.audio.treble.setValue(v1) and then setValue(v2)
callLowPass ==
    /\ call.op = "LowPass"
    /\ ret = NoRet
    /\ LET first == LowPass_setValue(treble, call.v1)
           second == LowPass_setValue(first, call.v2)
       IN  /\ treble' = second
           /\ ret' = [op |-> "LowPass", f1 |-> first.frequency, f2 |-> second.frequency]
    /\ UNCHANGED <<edges, mouse, pc, volume, distortion, bass, middle, reverb, streamSource,
                   created, pending, connections, switches, knobs, sent, escaped,
                   uiEvents, call>>

\* the node bound to id in amplifier.audio.bindListeners
nodeOf(id) ==
    CASE id = "VOLUME" -> volume
      [] id = "DISTORTION" -> distortion
      [] id = "BASS" -> bass
      [] id = "MIDDLE" -> middle
      [] id = "TREBLE" -> treble
      [] id = "REVERB" -> reverb

\* on the node of call.id: turnOn() first when call.on (the Volume node only), then
\* setValue(v1), setValue(v2) and setValue(v2) once more; first, second and again
\* are the node after each of the three calls
callSetValue ==
    /\ call.op = "setValue"
    /\ ret = NoRet
    /\ LET start == IF call.on THEN Volume_turnOn(nodeOf(call.id)) ELSE nodeOf(call.id)
           first == knobListeners(call.id, start, call.v1)
           second == knobListeners(call.id, first, call.v2)
           again == knobListeners(call.id, second, call.v2)
       IN  /\ volume' = IF call.id = "VOLUME" THEN again ELSE volume
           /\ distortion' = IF call.id = "DISTORTION" THEN again ELSE distortion
           /\ bass' = IF call.id = "BASS" THEN again ELSE bass
           /\ middle' = IF call.id = "MIDDLE" THEN again ELSE middle
           /\ treble' = IF call.id = "TREBLE" THEN again ELSE treble
           /\ reverb' = IF call.id = "REVERB" THEN again ELSE reverb
           /\ ret' = [op |-> "setValue", start |-> start, first |-> first,
                      second |-> second, again |-> again]
    /\ UNCHANGED <<edges, mouse, pc, streamSource, created, pending, connections, switches,
                   knobs, sent, escaped, uiEvents, call>>

\* getInput() and getOutput() of the object called call.node
callPorts ==
    /\ call.op = "ports"
    /\ ret = NoRet
    /\ ret' = [op |-> "ports", input |-> Node_getInput(call.node),
               output |-> Node_getOutput(call.node)]
    /\ UNCHANGED <<edges, mouse, pc, volume, distortion, bass, middle, treble, reverb,
                   streamSource, created, pending, connections, switches, knobs, sent,
                   escaped, uiEvents, call>>

FnNext == callMap \/ callHighPass \/ callLowPass \/ callSetValue \/ callPorts

FnSpec == FnInit /\ [][FnNext]_vars

(***************************************************************************)
(* Properties                                                              *)
(***************************************************************************)
\* the connections of media stream source h
ConnectionsOf(conns, h) == {c \in conns : c[1] = h}

\* a step in which POWER is switched to state
PowerSwitched(state) == sent' = <<SwitchState("POWER", state)>> /\ SwitchClick("POWER")

\* C1: after any sequence of Volume.setValue, turnOn and turnOff calls the gain of
\* the Volume node is 10 times its control value while on is true and 0 while on
\* is false.
C1_VolumeGain ==
    volume.gain = IF volume.on THEN volume.value * 10 ELSE 0

\* C1, reached: the sound was switched off at a control value above 0 and the gain is 0
C1_Witness ==
    /\ sent = <<SwitchState("SOUND", FALSE)>>
    /\ ~volume.on
    /\ volume.value > 0
    /\ volume.gain = 0

\* C2: when a microphone request is granted, a media stream source is created,
\* becomes the stream handle, and is connected to compressor1's input and to no
\* other node.
C2_GrantConnectsFirstNode ==
    [][created' # created =>
          /\ streamSource' = <<created'>>
          /\ ConnectionsOf(connections', created') = {<<created', "compressor1">>}]_vars

\* C2, reached: POWER is on, the first request was granted and its source is
\* connected to compressor1
C2_Witness ==
    /\ pc = "run"
    /\ switches["POWER"]
    /\ streamSource = <<1>>
    /\ connections = {<<1, "compressor1">>}

\* C3: a denied microphone request sends exactly one SWITCH_FAILURE('POWER'),
\* creates no stream handle and adds no connection: while there is no stream
\* handle, nothing is connected to the graph.
C3_DenialSignalsOnce ==
    [][(pending' < pending /\ created' = created) =>
          /\ sent' = <<SwitchFailure("POWER")>>
          /\ streamSource' = streamSource
          /\ connections' = connections
          /\ (streamSource' = <<>> => connections' = {})]_vars

\* C3, reached: the only request was denied; no handle, no connection, POWER shown off
C3_Witness ==
    /\ sent = <<SwitchFailure("POWER")>>
    /\ streamSource = <<>>
    /\ connections = {}
    /\ pending = 0
    /\ ~switches["POWER"]

\* C4: once a stream handle exists it stays the same handle for ever; switching
\* POWER off removes its connections and keeps it, and switching POWER on connects
\* it to the first node without issuing a microphone request.
C4_HandleKeptAndReused ==
    [][streamSource # <<>> =>
          /\ streamSource' = streamSource
          /\ (PowerSwitched(FALSE) => ConnectionsOf(connections', streamSource[1]) = {})
          /\ (PowerSwitched(TRUE) =>
                /\ <<streamSource[1], "compressor1">> \in connections'
                /\ pending' = pending)]_vars

\* C5: while a microphone request is pending, no further request is issued, so at
\* most one request is in flight.
C5_OneRequestInFlight ==
    [][pending > 0 => pending' <= pending]_vars

\* C6: neither errorCallback nor readFile lets an exception escape to the event loop.
C6_NothingEscapes ==
    /\ escaped # "Unauthorized access to microphone"
    /\ escaped # "Invalid configuration"

\* the six knob values and the effect nodes
KnobValues(kn) == [k \in DOMAIN kn |-> kn[k].value]
Nodes == <<volume, distortion, bass, middle, treble, reverb>>

\* C7: reading a configuration in which any one of the six fields is missing or is
\* not a number changes none of the six knob values and none of the effect nodes.
C7_InvalidConfigRejected ==
    [][\A file \in InvalidFiles :
          readFile(file) =>
              /\ KnobValues(knobs') = KnobValues(knobs)
              /\ Nodes' = Nodes]_vars

\* C7, reached: after the defaults were changed by a click, an invalid
\* configuration was read and the knobs and the nodes still have the clicked values
C7_Witness ==
    /\ escaped = "Invalid configuration"
    /\ uiEvents = 2
    /\ KnobValues(knobs) = [volume |-> 400, distortion |-> 400, bass |-> 500,
                            middle |-> 700, treble |-> 900, reverb |-> 200]
    /\ bass.value = 500

\* C8: for every control value in [0, 1], HighPass.setValue writes a frequency in
\* [31, 650] Hz and LowPass.setValue writes a frequency in [650, 1319] Hz.
C8_FrequencyRanges ==
    /\ ret.op = "HighPass" =>
          /\ 31 * 1000000 <= ret.f1 /\ ret.f1 <= 650 * 1000000
          /\ 31 * 1000000 <= ret.f2 /\ ret.f2 <= 650 * 1000000
    /\ ret.op = "LowPass" =>
          /\ 650 * 1000000 <= ret.f1 /\ ret.f1 <= 1319 * 1000000
          /\ 650 * 1000000 <= ret.f2 /\ ret.f2 <= 1319 * 1000000

\* C9: for control values v1 <= v2 in [0, 1], the HighPass frequency for v1 is at
\* least the one for v2, and the LowPass frequency for v1 is at most the one for v2.
C9_Monotonic ==
    /\ (ret.op = "HighPass" /\ call.v1 <= call.v2) => ret.f1 >= ret.f2
    /\ (ret.op = "LowPass" /\ call.v1 <= call.v2) => ret.f1 <= ret.f2

\* C9, reached: the bass frequency fell strictly from a smaller value to a larger one
C9_Witness ==
    /\ ret.op = "HighPass"
    /\ call.v1 < call.v2
    /\ ret.f1 > ret.f2
    /\ bass.value = call.v2

\* C10: map(value, [inMin, inMax], [outMin, outMax]) is
\* outMin + (outMax - outMin) * (value - inMin) / (inMax - inMin); it is outMin at
\* inMin and outMax at inMax.
C10_LinearInterpolation ==
    ret.op = "map" =>
        ret.result =
            call.finalInterval[1] * 1000000
            + ((call.finalInterval[2] - call.finalInterval[1])
                  * (call.value - call.initialInterval[1] * 1000000))
              \div (call.initialInterval[2] - call.initialInterval[1])

\* C11: for every effect node with a knob, getValue() returns the raw value passed
\* to the most recent setValue call on that node.
C11_GetValueIsLastSet ==
    ret.op = "setValue" => Node_getValue(nodeOf(call.id)) = call.v2

\* C12: calling setValue(x) twice in a row leaves the node's stored value and all
\* its physical parameters, the curve's samples among them, as one call does.
C12_Idempotent ==
    ret.op = "setValue" =>
        /\ ret.again = ret.second
        /\ call.id = "DISTORTION" =>
              \A i \in 0..(SAMPLES - 1) :
                  curveAt(ret.again.curve, i) = curveAt(ret.second.curve, i)

\* C12, reached: on the Volume node while on, the second call changed the gain
\* the first had set, and the third call changed nothing
C12_Witness ==
    /\ ret.op = "setValue"
    /\ call.id = "VOLUME"
    /\ call.on
    /\ ret.second.gain # ret.first.gain
    /\ ret.again = ret.second
    /\ volume = ret.again

\* C13: switching the sound off leaves the Volume node's control value unchanged
\* and sets the gain to 0; switching it on leaves the control value unchanged and
\* sets the gain to 10 times that value, whenever the value was set.
C13_TurnOnUsesStoredValue ==
    [][\A state \in BOOLEAN :
          sent' = <<SwitchState("SOUND", state)>> =>
              /\ volume'.value = volume.value
              /\ volume'.on = state
              /\ volume'.gain = IF state THEN 10 * volume.value ELSE 0]_vars

\* C13, reached: the value 0.5 was set by one knob click, the sound was switched on
\* and the gain is 5
C13_Witness ==
    /\ sent = <<SwitchState("SOUND", TRUE)>>
    /\ uiEvents = 1
    /\ volume.on
    /\ volume.value = 500
    /\ volume.gain = 5000

\* the serial path of the graph
SerialPath ==
    { <<"compressor1", "distortion">>, <<"distortion", "volume">>,
      <<"volume", "bass">>, <<"bass", "middle">>, <<"middle", "treble">>,
      <<"treble", "compressor2">>, <<"compressor2", "destination">> }

\* C14: the graph holds the serial path compressor1 -> distortion -> volume -> bass
\* -> middle -> treble -> compressor2 -> destination, every reverb tap is fed from
\* compressor2, the reverb's last stage is connected to the destination, and no
\* operation adds or removes an edge.
C14_GraphFixed ==
    /\ SerialPath \subseteq edges
    /\ \A i \in 1..Len(reverb.delays) : <<"compressor2", reverb.delays[i].input>> \in edges
    /\ <<reverb.allPasses[Len(reverb.allPasses)].output, "destination">> \in edges
    /\ \A e \in edges : e[1] = "compressor1" => e[2] = "distortion"
    /\ Cardinality(edges) = Cardinality(SerialPath) + 3 * Len(reverb.delays)
                                + 2 * Len(reverb.allPasses)
    /\ edges = initNodes

\* C14, reached: knobs were changed, both switches are on and the stream is
\* connected; the graph has its 48 edges
C14_Witness ==
    /\ pc = "run"
    /\ uiEvents > 0
    /\ switches["POWER"] /\ switches["SOUND"]
    /\ connections # {}
    /\ Cardinality(edges) = 48
    /\ SerialPath \subseteq edges

\* a node's physical parameters: the node without its stored control value
Physical(node) == [node EXCEPT !.value = 0]

\* C15: an input outside [0, 1] is clamped to the nearest boundary before the
\* physical parameter is computed, for every effect node.
C15_OutOfRangeClamped ==
    ret.op = "setValue" =>
        Physical(ret.second) =
            Physical(knobListeners(call.id, ret.first, clamp(call.v2, 0, 1000)))

\* C15, amended: only Distortion clamps its input, to [0, 0.985], and BandStop caps
\* it at 0.9; Volume, HighPass, LowPass and Reverb compute the physical parameter
\* from the input as it is given, inside [0, 1] or outside.
C15_ClampedByDistortionOnly ==
    ret.op = "setValue" =>
        /\ call.id = "VOLUME" =>
              ret.second.gain = IF call.on THEN 10 * call.v2 ELSE 0
        /\ call.id = "DISTORTION" =>
              /\ call.v2 < 0 => ret.second.distortion = 0
              /\ call.v2 > 985 => ret.second.distortion = 985
              /\ (0 <= call.v2 /\ call.v2 <= 985) => ret.second.distortion = call.v2
        /\ call.id = "BASS" =>
              ret.second.frequency = (650 - 31) * (1000 - call.v2) * (1000 - call.v2)
        /\ call.id = "MIDDLE" =>
              /\ call.v2 >= 900 => ret.second.Q = 10 * 1000000
              /\ call.v2 < 900 => ret.second.Q = 10 * (100 + call.v2) * (100 + call.v2)
        /\ call.id = "TREBLE" =>
              ret.second.frequency = (1319 - 650) * call.v2 * call.v2
        /\ call.id = "REVERB" =>
              ret.second.allPasses[4].gain = call.v2

\* C15, reached: the Volume node, on, was given 1.5 and its gain is 15
C15_Witness ==
    /\ ret.op = "setValue"
    /\ call.id = "VOLUME"
    /\ call.on
    /\ call.v2 = 1500
    /\ volume.gain = 15000

\* the KNOB_VALUE messages of msgs that carry id
MessagesFor(msgs, id) ==
    SelectSeq(msgs, LAMBDA m : m.name = "KNOB_VALUE" /\ m.id = id)

\* the state of the microphone stream
Stream == <<streamSource, created, pending, connections>>

\* C16: a node changes only in a step that delivers a KNOB_VALUE with its id, and
\* then it is what setValue makes of the last such value; SWITCH_STATE('SOUND')
\* changes only the Volume node's on flag and gain; SWITCH_STATE('POWER') changes
\* no node; neither a KNOB_VALUE nor SWITCH_STATE('SOUND') changes the stream.
C16_OwnTargetOnly ==
    [][/\ \A id \in KnobIds :
             LET mine == MessagesFor(sent', id)
             IN  IF mine # <<>>
                 THEN nodeOf(id)' = knobListeners(id, nodeOf(id), mine[Len(mine)].value)
                 ELSE \/ nodeOf(id)' = nodeOf(id)
                      \/ /\ id = "VOLUME"
                         /\ \E state \in BOOLEAN : sent' = <<SwitchState("SOUND", state)>>
                         /\ volume'.value = volume.value
       /\ (\E id \in KnobIds : MessagesFor(sent', id) # <<>>) =>
             volume'.on = volume.on /\ Stream' = Stream
       /\ (\E state \in BOOLEAN : sent' = <<SwitchState("SOUND", state)>>) =>
             Stream' = Stream
       /\ (\E state \in BOOLEAN : sent' = <<SwitchState("POWER", state)>>) =>
             Nodes' = Nodes]_vars

\* C16, reached: with the sound on and the stream connected a BASS value was
\* delivered; the bass node has it and the treble node has the default
C16_Witness ==
    /\ sent = <<KnobValue("BASS", 500)>>
    /\ bass.value = 500
    /\ treble.value = 900
    /\ volume.on
    /\ connections # {}

\* C17: Distortion.setValue clamps its input to [0, 0.985] before the curve is
\* computed: an input below 0 gives the curve of 0, an input above 0.985 the curve
\* of 0.985; every call writes every sample anew, and the curve always has 2048
\* entries.
C17_ClampedCurve ==
    /\ distortion.curve.length = 2048
    /\ (ret.op = "setValue" /\ call.id = "DISTORTION") =>
          /\ ret.first.curve.length = 2048
          /\ (call.v1 = 0 /\ call.v2 < 0) =>
                \A i \in 0..2047 :
                    curveAt(ret.second.curve, i) = curveAt(ret.first.curve, i)
          /\ (call.v1 = 985 /\ call.v2 > 985) =>
                \A i \in 0..2047 :
                    curveAt(ret.second.curve, i) = curveAt(ret.first.curve, i)
          /\ \A i \in 0..2047 :
                curveAt(ret.second.curve, i) =
                    curveAt(Distortion_setValue(Distortion_new, call.v2).curve, i)

\* C17, reached: after setValue(0) the input -0.5 was given; the curve is the one
\* of 0, from -1 at index 0
C17_Witness ==
    /\ ret.op = "setValue"
    /\ call.id = "DISTORTION"
    /\ call.v1 = 0
    /\ call.v2 = -500
    /\ distortion.value = -500
    /\ distortion.distortion = 0
    /\ curveAt(distortion.curve, 0) = -1000
    /\ curveAt(distortion.curve, 1536) = 500

\* C18: the abscissa of sample i is i * 2/2047 - 1, so with distortion amount 0
\* curve[i] is i * 2/2047 - 1, which is -1 at index 0 and 1 at index 2047.
C18_AbscissaOver2047 ==
    (ret.op = "setValue" /\ call.id = "DISTORTION" /\ distortion.distortion = 0) =>
        /\ curveAt(distortion.curve, 0) = -1000
        /\ curveAt(distortion.curve, 2047) = 1000
        /\ \A i \in 0..2047 :
              curveAt(distortion.curve, i) = ((2 * i - 2047) * 1000) \div 2047

\* C18, amended: the abscissa of sample i is i * 2/2048 - 1, so with distortion
\* amount 0 curve[i] is i/1024 - 1, which is -1 at index 0, 0 at index 1024 and
\* 1023/1024, short of 1, at index 2047.
C18_AbscissaOver2048 ==
    (ret.op = "setValue" /\ call.id = "DISTORTION" /\ distortion.distortion = 0) =>
        /\ curveAt(distortion.curve, 0) = -1000
        /\ curveAt(distortion.curve, 1024) = 0
        /\ curveAt(distortion.curve, 2047) = (1023 * 1000) \div 1024
        /\ curveAt(distortion.curve, 2047) < 1000
        /\ \A i \in 0..2047 :
              curveAt(distortion.curve, i) = ((i - 1024) * 1000) \div 1024

\* C18, reached: the curve was computed for distortion amount 0 and its last
\* sample is 0.999
C18_Witness ==
    /\ ret.op = "setValue"
    /\ call.id = "DISTORTION"
    /\ call.v2 = 0
    /\ distortion.curve.written
    /\ distortion.curve.a = 0
    /\ curveAt(distortion.curve, 2047) = 999

\* C19: BandStop.setValue(v) sets Q to 10 * (0.1 + min(0.9, v))^2, which is 10 for
\* every v >= 0.9, and changes only Q and the stored value: the centre frequency
\* keeps the value it was constructed with.
C19_BandStopQ ==
    (ret.op = "setValue" /\ call.id = "MIDDLE") =>
        /\ middle.Q = 10 * (100 + Min2(900, call.v2)) * (100 + Min2(900, call.v2))
        /\ call.v2 >= 900 => middle.Q = 10 * 1000000
        /\ middle.value = call.v2
        /\ middle.frequency = ret.start.frequency
        /\ ret.first.frequency = ret.start.frequency
        /\ [middle EXCEPT !.Q = ret.start.Q, !.value = ret.start.value] = ret.start

\* C19, reached: setValue(0.95) gave Q = 10 and left the centre frequency alone
C19_Witness ==
    /\ ret.op = "setValue"
    /\ call.id = "MIDDLE"
    /\ call.v2 = 950
    /\ middle.value = 950
    /\ middle.Q = 10000000
    /\ middle.frequency = BandStop_new.frequency

\* the edges of the graph outside the serial path: those of the reverb
ReverbEdges(e) == e \ SerialPath

\* C20: whatever values the reverb was given, its 11 delay taps (delay times, tap
\* gains 1.2 - delay time), its 4 all-pass filters (frequency, Q), the output gains
\* of the first three all-pass stages and the reverb's connections are as built;
\* only the last all-pass stage's output gain carries the value.
C20_OnlyWetGain ==
    /\ [i \in 1..Len(reverb.delays) |-> reverb.delays[i].delayTime]
          = <<0, 116, 188, 277, 356, 422, 491, 557, 617, 800, 1100>>
    /\ \A i \in 1..Len(reverb.delays) :
          reverb.delays[i].gain = 1200 - reverb.delays[i].delayTime
    /\ [i \in 1..Len(reverb.allPasses) |->
            <<reverb.allPasses[i].frequency, reverb.allPasses[i].Q>>]
          = << <<1125, 1000>>, <<2780, 1000>>, <<2205, 1000>>, <<1705, 1000>> >>
    /\ \A i \in 1..3 : reverb.allPasses[i].gain = 1000
    /\ pc # "ui.init" => reverb.allPasses[4].gain = knobs["reverb"].value
    /\ [reverb EXCEPT !.allPasses[4].gain = 1000] = Reverb_new
    /\ ReverbEdges(edges) = ReverbEdges(initNodes)
    /\ Cardinality(ReverbEdges(edges)) = 41

\* C20, reached: the reverb knob was clicked from 0.2 to 0.3 and the last all-pass
\* stage's output gain is 0.3
C20_Witness ==
    /\ sent = <<KnobValue("REVERB", 300)>>
    /\ reverb.allPasses[4].gain = 300
    /\ reverb.allPasses[3].gain = 1000
    /\ reverb.delays[11].gain = 100

\* C21: for every single-stage node getInput() and getOutput() return the same
\* node, and for the Reverb getOutput() returns something else than getInput().
C21_PortsOfNodes ==
    ret.op = "ports" =>
        IF call.node = "reverb" THEN ret.output # ret.input ELSE ret.output = ret.input

\* C22: whenever a media stream source is connected to the first node, the POWER
\* switch shows on.
C22_ConnectedOnlyWhilePowerOn ==
    (pc = "run" /\ connections # {}) => switches["POWER"]

\* C23: at most one media stream source is ever created, at most one is connected
\* to the first node, and a connected source is the one streamSource holds.
C23_OneStreamSource ==
    /\ created <= 1
    /\ Cardinality(connections) <= 1
    /\ \A c \in connections : streamSource = <<c[1]>>

\* C24: whenever SWITCH_STATE('POWER', false) is delivered a stream handle exists,
\* so input.disconnect raises no TypeError.
C24_DisconnectHasHandle ==
    [][sent' = <<SwitchState("POWER", FALSE)>> =>
          /\ streamSource # <<>>
          /\ escaped' # "TypeError"]_vars

\* C25: when every request is answered, a POWER on delivered while there is no
\* stream handle is eventually followed by the stream being connected or by a
\* SWITCH_FAILURE('POWER'); a denial issues no request, and a POWER on without a
\* handle issues exactly one.
C25_PowerOnIsAnswered ==
    /\ (sent = <<SwitchState("POWER", TRUE)>> /\ streamSource = <<>>)
          ~> (connections # {} \/ sent = <<SwitchFailure("POWER")>>)
    /\ [][/\ sent' = <<SwitchFailure("POWER")>> => pending' = pending - 1
          /\ (sent' = <<SwitchState("POWER", TRUE)>> /\ streamSource = <<>>) =>
                pending' = pending + 1]_vars

\* C25, reached: POWER on was delivered without a stream handle and its request
\* is waiting for the answer
C25_Witness ==
    /\ sent = <<SwitchState("POWER", TRUE)>>
    /\ switches["POWER"]
    /\ streamSource = <<>>
    /\ connections = {}
    /\ pending = 1

\* C26: a SWITCH_FAILURE('POWER') sets the POWER switch to off and nothing else:
\* the SOUND switch, the Volume node and every other node keep their state, no
\* SWITCH_STATE is sent and amplifier.audio.power(false) is not run, so the stream
\* handle and its connections are untouched.
C26_FailureRevertsPowerOnly ==
    [][sent' = <<SwitchFailure("POWER")>> =>
          /\ ~switches'["POWER"]
          /\ switches'["SOUND"] = switches["SOUND"]
          /\ Nodes' = Nodes
          /\ streamSource' = streamSource
          /\ connections' = connections
          /\ escaped' # "TypeError"]_vars

\* C26, reached: the request was denied while the sound was on; POWER shows off,
\* SOUND still shows on and the gain is still 10 times the volume
C26_Witness ==
    /\ sent = <<SwitchFailure("POWER")>>
    /\ ~switches["POWER"]
    /\ switches["SOUND"]
    /\ volume.on
    /\ volume.gain = 4000

\* the nodes reached from those of seen along the edges of e, the nodes of
\* frontier being the ones whose edges were not followed yet
RECURSIVE ReachFrom(_, _, _)
ReachFrom(e, seen, frontier) ==
    IF frontier = {} THEN seen
    ELSE LET new == {x[2] : x \in {y \in e : y[1] \in frontier}} \ seen
         IN  ReachFrom(e, seen \cup new, new)

\* the nodes a signal entering at from can reach along the edges of e
Reach(e, from) == ReachFrom(e, {from}, {from})

\* the graph without the edges into and out of node
Without(e, node) == {x \in e : x[1] # node /\ x[2] # node}

\* C27: the destination is reached from compressor1, but neither it nor any reverb
\* stage is reached once the Volume node is taken out: every path passes through
\* it; every stream source enters at compressor1, and while the SOUND switch is off
\* the Volume gain is 0.
C27_AllPathsThroughVolume ==
    /\ LET all == Reach(edges, getFirstNode)
       IN  /\ "destination" \in all
           /\ \A i \in 1..Len(reverb.delays) : reverb.delays[i].input \in all
    /\ LET cut == Reach(Without(edges, "volume"), getFirstNode)
       IN  /\ "destination" \notin cut
           /\ \A i \in 1..Len(reverb.delays) : reverb.delays[i].input \notin cut
           /\ \A i \in 1..Len(reverb.allPasses) : reverb.allPasses[i].output \notin cut
    /\ \A c \in connections : c[2] = "compressor1"
    /\ (pc = "run" /\ ~switches["SOUND"]) => volume.gain = 0

\* C27, reached: the stream is connected, the volume is 0.4 and the sound is off:
\* the gain on the only way to the destination is 0
C27_Witness ==
    /\ pc = "run"
    /\ connections # {}
    /\ switches["POWER"]
    /\ ~switches["SOUND"]
    /\ volume.value = 400
    /\ volume.gain = 0
    /\ "destination" \in Reach(edges, "compressor1")

\* C29: when amplifier.core.init completes, the values of the Volume, Distortion,
\* HighPass, BandStop and LowPass nodes and the reverb's wet gain are those of
\* amplifier.config.DEFAULT (0.4, 0.4, 0.4, 0.7, 0.9, 0.2), which replace the
\* values the Knob constructors had sent; the Volume gain is 0, both switches are
\* off, and no stream is requested or connected.
C29_DefaultsAfterInit ==
    [][(pc = "config.init" /\ pc' = "run") =>
          /\ <<volume.value, distortion.value, bass.value, middle.value, treble.value,
               reverb.allPasses[4].gain>> = <<0, 1000, 1000, 1000, 1000, 400>>
          /\ <<volume'.value, distortion'.value, bass'.value, middle'.value,
               treble'.value, reverb'.allPasses[4].gain>> = <<400, 400, 400, 700, 900, 200>>
          /\ KnobValues(knobs') = [volume |-> 400, distortion |-> 400, bass |-> 400,
                                   middle |-> 700, treble |-> 900, reverb |-> 200]
          /\ volume'.gain = 0 /\ ~volume'.on
          /\ switches' = [id \in SwitchIds |-> FALSE]
          /\ pending' = 0 /\ streamSource' = <<>> /\ connections' = {}]_vars

\* C29, reached: initialisation has just completed with the six default values
\* sent last
C29_Witness ==
    /\ pc = "run"
    /\ uiEvents = 0
    /\ Len(sent) = 6
    /\ sent[6] = KnobValue("REVERB", 200)
    /\ distortion.distortion = 400
    /\ volume.value = 400
    /\ volume.gain = 0
    /\ pending = 0

\* C28: whatever clicks, drags and configuration loads have happened, every knob's
\* value is in [0, 1], every KNOB_VALUE message carries a value in [0, 1], and so
\* the value every node holds is in [0, 1].
C28_ValuesInUnitInterval ==
    /\ \A k \in DOMAIN knobs : knobs[k].value \in 0..1000
    /\ \A i \in 1..Len(sent) : sent[i].name = "KNOB_VALUE" => sent[i].value \in 0..1000
    /\ \A v \in {volume.value, distortion.value, bass.value, middle.value, treble.value} :
           v \in 0..1000

\* C28, reached: a configuration with bass 1.5 and middle -0.2 was loaded, and the
\* treble knob, at 0.1, is being dragged 100 pixels down, to -0.4 before clamping
C28_Witness ==
    /\ pc = "run"
    /\ knobs["bass"].value = 1000 /\ bass.value = 1000
    /\ knobs["middle"].value = 0 /\ middle.value = 0
    /\ knobs["treble"].isMouseMoveTarget /\ knobs["treble"].skipClick
    /\ knobs["treble"].mouseDownValue = 100
    /\ knobs["treble"].value = 0
    /\ sent = <<KnobValue("TREBLE", 0)>>

\* C30: a click inside a knob, pressed and released there without a move, advances
\* that knob's value by one step, whatever drags ended before it.
C30_ClickAdvances ==
    [][\A k \in KnobSet : KnobClick(k) => knobs'[k].value = nextValue(knobs[k].value)]_vars

====
